---- MODULE Spec2Model ----
(***************************************************************************)
(* Armada: release reconciliation (Armada.sync, as pinned down by          *)
(* armada/tests/unit/handlers/test_armada.py) and chart assembly           *)
(* (armada/handlers/chartbuilder.py).                                      *)
(*                                                                         *)
(* A Python dict is a record with a field `keys` (the keys that are        *)
(* present) and one field per possible key; d.get(k, default) is DGet.     *)
(***************************************************************************)
EXTENDS Integers, Sequences, FiniteSets, TLC

VARIABLES manifest, backend, known_releases, pc, gi, ci, plan, calls,
          failed, processed, raised, rerun,
          arg_chart, arg_known, planned,
          fs, scan_reversed, chart_doc, builder, built, templates,
          io, locale, chart_files, dumped, arg_filename, ignore_result

syncVars == <<manifest, backend, known_releases, pc, gi, ci, plan, calls,
              failed, processed, raised, rerun>>
planVars == <<arg_chart, arg_known, planned>>
buildVars == <<fs, scan_reversed, chart_doc, builder, built, templates>>
probeVars == <<io, locale, chart_files, dumped, arg_filename, ignore_result>>
vars == <<syncVars, planVars, buildVars, probeVars>>

(* ---------------------------------------------------------------- bounds *)
NumCharts == 3
MaxGroups == 2

(* ------------------------------------------------------------- constants *)
STATUS_DEPLOYED == "DEPLOYED"
STATUS_FAILED == "FAILED"
ABSENT == "ABSENT"
TestTimeout == 10

(* ------------------------------------------------------------ Python dict *)
EmptyDict == [keys |-> {}]
DGet(d, k, default) == IF k \in d.keys THEN d[k] ELSE default
Truthy(d) == d.keys # {}

(* ------------------------------------------------------------ chart docs *)
\* `protected`: {} or {continue_processing: bool}
ProtectedBlocks ==
  {[keys |-> {}, continue_processing |-> FALSE]}
    \cup {[keys |-> {"continue_processing"}, continue_processing |-> b] : b \in BOOLEAN}

\* `upgrade.options`: any subset of {force, recreate_pods}
OptionsBlocks ==
  {o \in [keys : SUBSET {"force", "recreate_pods"}, force : BOOLEAN, recreate_pods : BOOLEAN] :
     /\ ("force" \notin o.keys => ~o.force)
     /\ ("recreate_pods" \notin o.keys => ~o.recreate_pods)}

NoOptions == [keys |-> {}, force |-> FALSE, recreate_pods |-> FALSE]

\* `upgrade`: any subset of {no_hooks, options}
UpgradeBlocks ==
  {u \in [keys : SUBSET {"no_hooks", "options"}, no_hooks : BOOLEAN, options : OptionsBlocks] :
     /\ ("no_hooks" \notin u.keys => ~u.no_hooks)
     /\ ("options" \notin u.keys => u.options = NoOptions)}

NoProtected == [keys |-> {}, continue_processing |-> FALSE]
NoUpgrade == [keys |-> {}, no_hooks |-> FALSE, options |-> NoOptions]

\* The upgrade block of example-chart-2 and example-chart-3.
TestUpgrade ==
  [keys |-> {"no_hooks", "options"}, no_hooks |-> FALSE,
   options |-> [keys |-> {"force", "recreate_pods"}, force |-> TRUE, recreate_pods |-> TRUE]]

Timeouts == {-1, 0, TestTimeout}

\* A chart document's data: `protected` and `upgrade` are optional keys.
ChartDoc(r, ks, p, u, t) ==
  [keys |-> ks \cup {"chart_name", "release", "namespace", "values", "wait"},
   chart_name |-> r, release |-> r, namespace |-> "test", values |-> EmptyDict,
   protected |-> p, upgrade |-> u, wait |-> [keys |-> {"timeout"}, timeout |-> t]]

ChartDocs(r) ==
  {ChartDoc(r, ks, p, u, t) :
     ks \in SUBSET {"protected", "upgrade"}, p \in ProtectedBlocks,
     u \in UpgradeBlocks, t \in Timeouts}

\* An optional key that is absent carries no block.
WellFormedDoc(c) ==
  /\ ("protected" \notin c.keys => c.protected = NoProtected)
  /\ ("upgrade" \notin c.keys => c.upgrade = NoUpgrade)

AllChartDocs(r) == {c \in ChartDocs(r) : WellFormedDoc(c)}

\* The documents of a manifest under sync: every `protected` variant, the
\* wait and upgrade blocks of TEST_YAML.
SyncDocs(r) ==
  {c \in {ChartDoc(r, ks, p, TestUpgrade, TestTimeout) :
            ks \in {{"upgrade"}, {"upgrade", "protected"}}, p \in ProtectedBlocks} :
     WellFormedDoc(c)}

(* ------------------------------------------------------- expected calls *)
release_prefixer(prefix, release) == <<prefix, "-", release>>

safe_dump(values) == <<"yaml", values>>

\* mock_chartbuilder().get_helm_chart(): the package assembled for the chart
Package(chart) == <<"helm_chart", chart.chart_name>>

KnownNames(known) == {known[i].name : i \in 1..Len(known)}

\* the first known release of that name
TargetRelease(known, release_name) ==
  known[CHOOSE i \in 1..Len(known) :
          /\ known[i].name = release_name
          /\ \A j \in 1..(i - 1) : known[j].name # release_name]

\* What if: a timeout of 0 waits too.
this_chart_should_wait_NonNegative(chart) == chart.wait.timeout >= 0

this_chart_should_wait(chart) == chart.wait.timeout > 0

InstallCall(chart, prefix) ==
  [op |-> "install", chart |-> Package(chart),
   name |-> release_prefixer(prefix, chart.release),
   namespace |-> chart.namespace, values |-> safe_dump(chart.values),
   wait |-> this_chart_should_wait(chart), timeout |-> chart.wait.timeout]

UninstallCall(chart, prefix) ==
  [op |-> "uninstall", name |-> release_prefixer(prefix, chart.release)]

UpdateCall(chart, prefix) ==
  LET upgrade == DGet(chart, "upgrade", EmptyDict)
      disable_hooks == DGet(upgrade, "no_hooks", FALSE)
      force == DGet(upgrade, "force", FALSE)
      recreate_pods == DGet(upgrade, "recreate_pods", FALSE)
  IN [op |-> "upgrade", chart |-> Package(chart),
      name |-> release_prefixer(prefix, chart.release),
      namespace |-> chart.namespace, pre_actions |-> {}, post_actions |-> {},
      disable_hooks |-> disable_hooks, force |-> force,
      recreate_pods |-> recreate_pods, values |-> safe_dump(chart.values),
      wait |-> this_chart_should_wait(chart), timeout |-> chart.wait.timeout]

\* What if: a protected release never halts the run.
PlanProtected_NeverHalts(protected) == [raise |-> FALSE, actions |-> <<>>]

\* What if: continue_processing is not read.
PlanProtected_AlwaysHalts(protected) == [raise |-> TRUE, actions |-> <<>>]

\* A FAILED release with a `protected` block: skip the chart, or raise
\* ProtectedReleaseException.
PlanProtected(protected) ==
  IF DGet(protected, "continue_processing", FALSE)
  THEN [raise |-> FALSE, actions |-> <<>>]
  ELSE [raise |-> TRUE, actions |-> <<>>]

\* What if: the failed release is not purged.
PlanPurge_NoUninstall(chart, prefix) ==
  [raise |-> FALSE, actions |-> <<InstallCall(chart, prefix)>>]

\* What if: the failed release is purged after the install.
PlanPurge_InstallFirst(chart, prefix) ==
  [raise |-> FALSE,
   actions |-> <<InstallCall(chart, prefix), UninstallCall(chart, prefix)>>]

\* A FAILED release without protection: purge it, then install.
PlanPurge(chart, prefix) ==
  [raise |-> FALSE,
   actions |-> <<UninstallCall(chart, prefix), InstallCall(chart, prefix)>>]

\* What if: a deployed release is installed again.
PlanDeployed_Reinstall(chart, prefix) ==
  [raise |-> FALSE, actions |-> <<InstallCall(chart, prefix)>>]

\* A DEPLOYED release is upgraded.
PlanDeployed(chart, prefix) ==
  [raise |-> FALSE, actions |-> <<UpdateCall(chart, prefix)>>]

\* What sync does for one chart: the backend calls in order, or the
\* ProtectedReleaseException.
PlanChart(chart, prefix, known) ==
  LET release_name == release_prefixer(prefix, chart.release) IN
  IF release_name \notin KnownNames(known)
  THEN [raise |-> FALSE, actions |-> <<InstallCall(chart, prefix)>>]
  ELSE LET status == TargetRelease(known, release_name).status IN
       IF status = STATUS_FAILED
       THEN LET protected == DGet(chart, "protected", EmptyDict) IN
            IF ~Truthy(protected)
            THEN PlanPurge(chart, prefix)
            ELSE PlanProtected(protected)
       ELSE IF status = STATUS_DEPLOYED
            THEN PlanDeployed(chart, prefix)
            ELSE [raise |-> FALSE, actions |-> <<>>]

(* ---------------------------------------------------------------- strings *)
(* A string is a sequence of tokens. The tokens are chosen so that none is *)
(* a proper prefix or suffix of another: startswith, endswith, strip and   *)
(* equality on the token sequences are those of the strings.               *)
StartsWith(s, prefix) ==
  Len(prefix) <= Len(s) /\ SubSeq(s, 1, Len(prefix)) = prefix

EndsWith(s, suffix) ==
  Len(suffix) <= Len(s) /\ SubSeq(s, Len(s) - Len(suffix) + 1, Len(s)) = suffix

RECURSIVE LStrip(_, _)
LStrip(s, chars) ==
  IF s # <<>> /\ Head(s) \in chars THEN LStrip(Tail(s), chars) ELSE s

RECURSIVE RStrip(_, _)
RStrip(s, chars) ==
  IF s # <<>> /\ s[Len(s)] \in chars THEN RStrip(SubSeq(s, 1, Len(s) - 1), chars) ELSE s

\* str.strip(chars)
Strip(s, chars) == RStrip(LStrip(s, chars), chars)

Whitespace == {" ", "\n"}

RECURSIVE Reverse(_)
Reverse(s) == IF s = <<>> THEN <<>> ELSE Reverse(Tail(s)) \o <<Head(s)>>

RECURSIVE Flatten(_)
Flatten(ss) == IF ss = <<>> THEN <<>> ELSE Head(ss) \o Flatten(Tail(ss))

(* ------------------------------------------------------------ file system *)
(* A path is a sequence of names; fs.dirs and fs.files are the paths that  *)
(* exist, fs.lines the lines of each .helmignore, fs.yaml what each        *)
(* Chart.yaml loads to.                                                    *)
TEMPLATES == <<"templates">>
CHARTS == <<"charts">>
CHART_YAML == <<"Chart", ".", "yaml">>
VALUES_YAML == <<"values", ".", "yaml">>
VALUES_TOML == <<"values", ".", "toml">>
HELMIGNORE == <<".", "helmignore">>
PROV == <<".", "prov">>

\* os.path.join of the names of a path
RECURSIVE PathStr(_)
PathStr(path) ==
  IF path = <<>> THEN <<>>
  ELSE IF Len(path) = 1 THEN path[1]
  ELSE path[1] \o <<"/">> \o PathStr(Tail(path))

\* os.path.relpath(path, start), for a path at or under start
RelPath(path, start) ==
  IF path = start THEN <<".">> ELSE PathStr(SubSeq(path, Len(start) + 1, Len(path)))

\* os.path.join(a, b) of two strings
JoinStr(a, b) == a \o <<"/">> \o b

Parent(path) == SubSeq(path, 1, Len(path) - 1)
BaseName(path) == path[Len(path)]

\* The names a scan can meet, in the order one scan lists them.
NameOrder ==
  << <<"app">>, <<"lib">>, <<"kv">>, <<"web">>, <<"api">>, <<"job">>, <<"dir">>,
     <<"web", ".", "bak">>, <<"_", "tmp">>, <<".", "git">>, <<"api", ".", "tgz">>,
     PROV, HELMIGNORE, CHART_YAML, VALUES_YAML, VALUES_TOML, TEMPLATES, CHARTS,
     <<"templates", "_", "old">>, <<"README">> >>

\* The names of S in scan order: os.scandir and os.walk list a directory in
\* no promised order.
ScanOrder(S) ==
  LET listed == SelectSeq(NameOrder, LAMBDA n : n \in S)
  IN IF scan_reversed THEN Reverse(listed) ELSE listed

FilesIn(dir) == {BaseName(f) : f \in {g \in fs.files : Parent(g) = dir}}
DirsIn(dir) == {BaseName(d) : d \in {e \in fs.dirs : e # <<>> /\ Parent(e) = dir}}

\* os.walk(top, topdown=True): (root, dirs, files) of top and of every
\* directory under it; nothing when top is no directory.
RECURSIVE Walk(_)
Walk(top) ==
  IF top \notin fs.dirs THEN <<>>
  ELSE LET dirs == ScanOrder(DirsIn(top))
       IN <<[root |-> top, dirs |-> dirs, files |-> ScanOrder(FilesIn(top))]>>
            \o Flatten([i \in 1..Len(dirs) |-> Walk(top \o <<dirs[i]>>)])

\* the content read from a file
FileData(path) == <<"data", path>>

\* What a file is to a reader: "utf8", bytes that are UTF-8 text; "latin1",
\* bytes that are not valid UTF-8; "oserror", a file that cannot be opened
\* or read. Files io does not list are UTF-8 text.
ReadKind(path) == IF path \in DOMAIN io THEN io[path] ELSE "utf8"

\* open(path, 'r').read() decodes with the locale's preferred encoding:
\* latin1 decodes any bytes, utf-8 only UTF-8 text
LocaleDecodes(path) == locale = "latin1" \/ ReadKind(path) = "utf8"

(* ----------------------------------------------------------- ChartBuilder *)
\* an exception: its class, the charts or files its arguments name, its
\* `details` argument, and its __context__, the exception that was being
\* handled when it was raised
Exc(class, names, details, context) ==
  [class |-> class, names |-> names, details |-> details, context |-> context]
Raise(class, names, details, context) ==
  [ok |-> FALSE, exc |-> Exc(class, names, details, context)]
Return(value) == [ok |-> TRUE, value |-> value]

\* ChartBuilder.get_ignored_files
get_ignored_files(source_directory) ==
  LET ignored_files ==
        IF source_directory \o <<HELMIGNORE>> \in fs.files
        THEN fs.lines[source_directory \o <<HELMIGNORE>>]
        ELSE <<>>
  IN [i \in 1..Len(ignored_files) |-> Strip(ignored_files[i], Whitespace)]

\* ChartBuilder.__init__
NewBuilder(name, source_directory, dependency_builders) ==
  [name |-> name, source_directory |-> source_directory,
   dependency_builders |-> dependency_builders,
   helm_chart |-> <<>>,
   ignored_files |-> get_ignored_files(source_directory)]

\* re.match(r'^[._]', name)
HiddenName(name) == name # <<>> /\ Head(name) \in {".", "_"}

\* ChartBuilder.from_source
RECURSIVE from_source(_, _)
from_source(name, source_directory) ==
  LET charts_dir == source_directory \o <<CHARTS>>
      entries == IF charts_dir \in fs.dirs
                 THEN ScanOrder(DirsIn(charts_dir) \cup FilesIn(charts_dir))
                 ELSE <<>>
      kept == SelectSeq(entries,
                        LAMBDA f : f \in DirsIn(charts_dir) /\ ~HiddenName(f))
  IN NewBuilder(name, source_directory,
                [i \in 1..Len(kept) |-> from_source(kept[i], charts_dir \o <<kept[i]>>)])

\* What if: the supplied dependencies are not used, the charts/ directory is.
RECURSIVE from_chart_doc_Scans(_)
from_chart_doc_Scans(chart) ==
  from_source(chart.metadata.name, chart.data.source_dir)

\* ChartBuilder.from_chart_doc; a `dependencies` that is None is a key that
\* is absent
RECURSIVE from_chart_doc(_)
from_chart_doc(chart) ==
  LET name == chart.metadata.name
      chart_data == chart.data
      source_directory == chart_data.source_dir
      dependencies == chart_data.dependencies
  IN IF "dependencies" \in chart_data.keys
     THEN NewBuilder(name, source_directory,
                     [i \in 1..Len(dependencies) |-> from_chart_doc(dependencies[i])])
     ELSE from_source(name, source_directory)

\* ChartBuilder.ignore_file
ignore_file(self, filename) ==
  \E i \in 1..Len(self.ignored_files) :
    LET ignored_file == self.ignored_files[i]
    IN \/ StartsWith(ignored_file, <<"*">>) /\ EndsWith(filename, Strip(ignored_file, {"*"}))
       \/ ignored_file = filename

\* ChartBuilder.get_metadata; a field Chart.yaml does not give is None, which
\* Metadata keeps as the empty string
get_metadata(self) ==
  LET path == self.source_directory \o <<CHART_YAML>>
  IN IF path \notin fs.files
     THEN Raise("MetadataLoadException", <<>>, <<>>,
                <<Exc("OSError", <<PathStr(path)>>, <<>>, <<>>)>>)
     ELSE IF ~fs.yaml[path].loads
     THEN Raise("MetadataLoadException", <<>>, <<>>,
                <<Exc("YAMLError", <<>>, <<>>, <<>>)>>)
     ELSE LET chart_yaml == fs.yaml[path]
          IN Return([description |-> DGet(chart_yaml, "description", <<>>),
                     name |-> DGet(chart_yaml, "name", <<>>),
                     version |-> DGet(chart_yaml, "version", <<>>)])

\* ChartBuilder.get_values
get_values(self) ==
  IF self.source_directory \o <<VALUES_YAML>> \in fs.files
  THEN [raw |-> FileData(self.source_directory \o <<VALUES_YAML>>)]
  ELSE [raw |-> <<>>]

\* What if: a template is named by its file name, not by its path under
\* templates/.
TemplateName_BaseName(self, root, tpl_file) == tpl_file

\* os.path.relpath(os.path.join(root, tpl_file), <source_directory>/templates)
TemplateName(self, root, tpl_file) ==
  RelPath(root \o <<tpl_file>>, self.source_directory \o <<TEMPLATES>>)

\* the templates of one directory of the walk
TemplatesOf(self, entry) ==
  LET tnames == [i \in 1..Len(entry.files) |-> TemplateName(self, entry.root, entry.files[i])]
      kept == SelectSeq([i \in 1..Len(entry.files) |-> i],
                        LAMBDA i : ~ignore_file(self, tnames[i]))
  IN [k \in 1..Len(kept) |->
        [name |-> tnames[kept[k]],
         data |-> FileData(entry.root \o <<entry.files[kept[k]]>>)]]

\* ChartBuilder.get_templates
get_templates(self) ==
  LET walk == Walk(self.source_directory \o <<TEMPLATES>>)
  IN Flatten([i \in 1..Len(walk) |-> TemplatesOf(self, walk[i])])

files_to_ignore == {CHART_YAML, VALUES_YAML, VALUES_TOML}

encodings == <<"utf-8", "latin1">>

\* one pass of the loop over encodings: open(abspath, 'r') and
\* f.read().encode(encoding). The text is decoded by the locale, whatever
\* `encoding` is; text that was decoded encodes to utf-8, and the latin1
\* pass is reached only after a pass whose decoding failed.
ReadAttempt(path, encoding) ==
  IF ReadKind(path) = "oserror" THEN "OSError"
  ELSE IF ~LocaleDecodes(path) THEN "UnicodeError"
  ELSE "ok"

\* msg = "(encoding=%s) %s" % (encoding, str(e))
UnicodeMessage(path, encoding) == <<"encoding", encoding, "UnicodeError", path>>

\* get_files._append_file_to_result: the Any of one file, or the
\* FilesLoadException
RECURSIVE AppendFrom(_, _, _, _)
AppendFrom(root, rel_folder_path, file, k) ==
  LET abspath == root \o <<file>>
      relpath == JoinStr(rel_folder_path, file)
      unicode_errors == [j \in 1..(k - 1) |-> UnicodeMessage(abspath, encodings[j])]
  IN IF k > Len(encodings)
     THEN Raise("FilesLoadException", <<PathStr(abspath)>>, unicode_errors, <<>>)
     ELSE LET outcome == ReadAttempt(abspath, encodings[k])
          IN IF outcome = "OSError"
             THEN Raise("FilesLoadException", <<PathStr(abspath)>>,
                        <<Exc("OSError", <<PathStr(abspath)>>, <<>>, <<>>)>>,
                        <<Exc("OSError", <<PathStr(abspath)>>, <<>>, <<>>)>>)
             ELSE IF outcome = "UnicodeError"
             THEN AppendFrom(root, rel_folder_path, file, k + 1)
             ELSE Return([type_url |-> relpath, value |-> FileData(abspath)])

AppendedFile(root, rel_folder_path, file) == AppendFrom(root, rel_folder_path, file, 1)

\* the files get_files appends for one directory of the walk, in order
FilesOf(self, entry) ==
  LET root == entry.root
      relfolder == BaseName(root)
      rel_folder_path == RelPath(root, self.source_directory)
      kept == SelectSeq(entry.files, LAMBDA file : file \notin files_to_ignore)
  IN IF ~\E x \in {TEMPLATES, CHARTS} :
           StartsWith(PathStr(root), JoinStr(PathStr(self.source_directory), x))
     THEN [i \in 1..Len(kept) |->
             [root |-> root, rel_folder_path |-> rel_folder_path, file |-> kept[i]]]
     ELSE IF relfolder = CHARTS /\ PROV \in FilesIn(root)
          THEN <<[root |-> root, rel_folder_path |-> rel_folder_path, file |-> PROV]>>
          ELSE <<>>

\* the appends in turn, up to the first that raises
RECURSIVE AppendAll(_, _)
AppendAll(todo, non_template_files) ==
  IF todo = <<>> THEN Return(non_template_files)
  ELSE LET t == Head(todo)
           appended == AppendedFile(t.root, t.rel_folder_path, t.file)
       IN IF appended.ok
          THEN AppendAll(Tail(todo), Append(non_template_files, appended.value))
          ELSE appended

\* ChartBuilder.get_files
get_files(self) ==
  LET walk == Walk(self.source_directory)
  IN AppendAll(Flatten([i \in 1..Len(walk) |-> FilesOf(self, walk[i])]), <<>>)

\* the Chart built from a builder's own directory and its dependencies'
\* charts; an exception of a getter is wrapped in HelmChartBuildException
BuildChart(self, dependencies) ==
  LET metadata == get_metadata(self)
      files == get_files(self)
  IN IF ~metadata.ok
     THEN Raise("HelmChartBuildException", <<self.name>>, <<metadata.exc>>,
                <<metadata.exc>>)
     ELSE IF ~files.ok
     THEN Raise("HelmChartBuildException", <<self.name>>, <<files.exc>>, <<files.exc>>)
     ELSE Return([metadata |-> metadata.value,
                  templates |-> get_templates(self),
                  dependencies |-> dependencies,
                  values |-> get_values(self),
                  files |-> files.value])

(* get_helm_chart and _get_helm_chart: [result, self], the chart or the    *)
(* exception, and the builder with the caches the call filled.             *)
RECURSIVE get_helm_chart(_)

\* the loop of _get_helm_chart over dependency_builders, from the i-th on
RECURSIVE BuildDependencies(_, _, _)
BuildDependencies(self, i, dependencies) ==
  IF i > Len(self.dependency_builders)
  THEN [result |-> Return(dependencies), self |-> self]
  ELSE LET dep == get_helm_chart(self.dependency_builders[i])
           updated == [self EXCEPT !.dependency_builders[i] = dep.self]
       IN IF dep.result.ok
          THEN BuildDependencies(updated, i + 1, Append(dependencies, dep.result.value))
          ELSE [result |-> Raise("DependencyException", <<self.name>>, <<>>,
                                 <<dep.result.exc>>),
                self |-> updated]

\* What if: the chart is built anew at every call.
get_helm_chart_NoCache(self) ==
  LET deps == BuildDependencies(self, 1, <<>>)
      chart == IF deps.result.ok THEN BuildChart(deps.self, deps.result.value)
               ELSE deps.result
  IN [result |-> chart, self |-> deps.self]

get_helm_chart(self) ==
  IF self.helm_chart # <<>>
  THEN [result |-> Return(self.helm_chart[1]), self |-> self]
  ELSE LET deps == BuildDependencies(self, 1, <<>>)
           chart == IF deps.result.ok THEN BuildChart(deps.self, deps.result.value)
                    ELSE deps.result
       IN [result |-> chart,
           self |-> IF chart.ok THEN [deps.self EXCEPT !.helm_chart = <<chart.value>>]
                    ELSE deps.self]


(* ------------------------------------------------------------- manifest *)
RECURSIVE SumSeq(_)
SumSeq(s) == IF s = <<>> THEN 0 ELSE Head(s) + SumSeq(Tail(s))

\* The ways to cut NumCharts charts into at most MaxGroups non-empty groups.
Splits ==
  {s \in UNION {[1..n -> 1..NumCharts] : n \in 1..MaxGroups} : SumSeq(s) = NumCharts}

Prefix == "armada"

BuildManifest(sizes, seq, docs) ==
  [release_prefix |-> Prefix,
   chart_groups |->
     [g \in 1..Len(sizes) |->
        [sequenced |-> seq[g],
         chart_group |->
           [c \in 1..sizes[g] |-> docs[SumSeq(SubSeq(sizes, 1, g - 1)) + c]]]]]

ManifestsOf(Docs(_)) ==
  {BuildManifest(sizes, seq, docs) :
     sizes \in Splits, seq \in [1..MaxGroups -> BOOLEAN],
     docs \in {d \in [1..NumCharts -> UNION {Docs(r) : r \in 1..NumCharts}] :
                 \A r \in 1..NumCharts : d[r] \in Docs(r)}}

Manifests == ManifestsOf(SyncDocs)

\* Manifests whose `protected` blocks, where present, are not empty.
FaultDocs(r) == {c \in SyncDocs(r) : "protected" \in c.keys => Truthy(c.protected)}

FaultManifests == ManifestsOf(FaultDocs)

DefaultManifest ==
  BuildManifest(<<NumCharts>>, [g \in 1..MaxGroups |-> FALSE],
                [r \in 1..NumCharts |-> ChartDoc(r, {}, NoProtected, NoUpgrade, TestTimeout)])

\* The known releases a chart's release is looked up in: none, or the release
\* itself after another one.
KnownLists(r) ==
  {<<>>, <<[name |-> release_prefixer(Prefix, 0), status |-> STATUS_DEPLOYED]>>}
    \cup {<<[name |-> release_prefixer(Prefix, 0), status |-> STATUS_FAILED],
            [name |-> release_prefixer(Prefix, r), status |-> st]>> :
            st \in {STATUS_DEPLOYED, STATUS_FAILED}}

Groups == manifest.chart_groups
NumGroups == Len(Groups)
Positions == {<<g, c>> : g \in 1..NumGroups, c \in 1..NumCharts}
ChartPositions == {p \in Positions : p[2] <= Len(Groups[p[1]].chart_group)}
ChartAt(p) == Groups[p[1]].chart_group[p[2]]
NameAt(p) == release_prefixer(manifest.release_prefix, ChartAt(p).release)

\* manifest declaration order: groups in order, charts in order within a group
Before(p, q) == p[1] < q[1] \/ (p[1] = q[1] /\ p[2] < q[2])

ReleaseNames == {release_prefixer(Prefix, r) : r \in 1..NumCharts}
Statuses == {ABSENT, STATUS_DEPLOYED, STATUS_FAILED}

(* -------------------------------------------------------------- backend *)
\* Tiller.list_charts: the releases the backend holds, with their status
RECURSIVE ListFrom(_, _)
ListFrom(b, r) ==
  IF r > NumCharts THEN <<>>
  ELSE LET n == release_prefixer(Prefix, r) IN
       (IF b[n] = ABSENT THEN <<>> ELSE <<[name |-> n, status |-> b[n]]>>)
         \o ListFrom(b, r + 1)

list_charts(b) == ListFrom(b, 1)

\* The state a successful call leaves the release in.
AfterOk(op) == IF op = "uninstall" THEN ABSENT ELSE STATUS_DEPLOYED

\* The status of the release once `actions` were called one after the other
\* and the f-th failed (f = 0: none failed): a failed call leaves the release
\* as it was, or FAILED.
Outcomes(b, name, actions, f) ==
  IF actions = <<>> THEN {b[name]}
  ELSE IF f = 0 THEN {AfterOk(actions[Len(actions)].op)}
  ELSE {IF f = 1 THEN b[name] ELSE AfterOk(actions[f - 1].op), STATUS_FAILED}

(* ----------------------------------------------------------------- sync *)
NoChart == <<0, 0>>

\* The cursor after the chart at <<g, c>>; a halted group is left at once.
NextCursor(g, c, halt_group) ==
  IF halt_group \/ c >= Len(Groups[g].chart_group) THEN <<g + 1, 1>> ELSE <<g, c + 1>>

\* What if: a failure halts the rest of any group.
HaltsGroup_AnyGroup(g, call_failed) == call_failed

\* A failure in a sequenced group halts the rest of that group.
HaltsGroup(g, call_failed) == call_failed /\ Groups[g].sequenced

Tag(g, c, actions) == [i \in 1..Len(actions) |-> [g |-> g, c |-> c, call |-> actions[i]]]

\* The calls made when the f-th call fails (f = 0: none fails): the calls up
\* to the failing one, each with its result.
Executed(g, c, actions, f) ==
  [i \in 1..(IF f = 0 THEN Len(actions) ELSE f) |->
     [g |-> g, c |-> c, call |-> actions[i], ok |-> (i # f)]]

\* One chart of the run: its calls are planned and made; the f-th fails
\* (f = 0: none does) and leaves the release `left`.
Process(f, left) ==
  LET chart == ChartAt(<<gi, ci>>)
      p == PlanChart(chart, manifest.release_prefix, known_releases)
      name == release_prefixer(manifest.release_prefix, chart.release)
      cur == NextCursor(gi, ci, HaltsGroup(gi, f # 0))
  IN /\ plan' = plan \o Tag(gi, ci, p.actions)
     /\ calls' = calls \o Executed(gi, ci, p.actions, f)
     /\ backend' = [backend EXCEPT ![name] = left]
     /\ failed' = IF f = 0 THEN failed ELSE failed \cup {<<gi, ci>>}
     /\ processed' = processed \cup {<<gi, ci>>}
     /\ gi' = cur[1]
     /\ ci' = cur[2]
     /\ UNCHANGED <<manifest, known_releases, pc, raised, rerun, planVars, buildVars, probeVars>>

CurrentPlan == PlanChart(ChartAt(<<gi, ci>>), manifest.release_prefix, known_releases)

Begin ==
  /\ known_releases' = list_charts(backend)
  /\ pc' = "running"
  /\ gi' = 1
  /\ ci' = 1
  /\ plan' = <<>>
  /\ calls' = <<>>
  /\ failed' = {}
  /\ processed' = {}
  /\ raised' = NoChart
  /\ UNCHANGED <<manifest, backend, planVars, buildVars, probeVars>>

\* sync is invoked
StartSync ==
  /\ pc = "idle"
  /\ Begin
  /\ UNCHANGED rerun

\* sync is invoked again, after a run that ended or was aborted
Resync ==
  /\ pc \in {"done", "aborted"}
  /\ Begin
  /\ rerun' = TRUE

\* every call for the chart succeeds
ProcessChart ==
  /\ pc = "running"
  /\ gi <= NumGroups
  /\ ~CurrentPlan.raise
  /\ \E left \in Outcomes(backend, NameAt(<<gi, ci>>), CurrentPlan.actions, 0) :
       Process(0, left)

\* a call for the chart fails (BackendCallError, WaitTimeoutError)
FailChart ==
  /\ pc = "running"
  /\ gi <= NumGroups
  /\ ~CurrentPlan.raise
  /\ \E f \in 1..Len(CurrentPlan.actions) :
       \E left \in Outcomes(backend, NameAt(<<gi, ci>>), CurrentPlan.actions, f) :
         Process(f, left)

\* ProtectedReleaseException
RaiseProtected ==
  /\ pc = "running"
  /\ gi <= NumGroups
  /\ CurrentPlan.raise
  /\ pc' = "aborted"
  /\ raised' = <<gi, ci>>
  /\ UNCHANGED <<manifest, backend, known_releases, gi, ci, plan, calls,
                 failed, processed, rerun, planVars, buildVars, probeVars>>

FinishSync ==
  /\ pc = "running"
  /\ gi > NumGroups
  /\ pc' = "done"
  /\ UNCHANGED <<manifest, backend, known_releases, gi, ci, plan, calls,
                 failed, processed, raised, rerun, planVars, buildVars, probeVars>>

(* ------------------------------------------------------ building a chart *)
MaxDeps == 2
MaxBuilds == 2
MaxPatterns == 2

APP == << <<"app">> >>
LIB == << <<"lib">> >>
KV == << <<"kv">> >>
WEB == <<"web">>
API == <<"api">>
JOB == <<"job">>
TMP == <<"_", "tmp">>
TGZ == <<"api", ".", "tgz">>
BAK == <<"web", ".", "bak">>
DIR == <<"dir">>

\* what a Chart.yaml that names its own directory loads to
ChartYaml(dir) ==
  [loads |-> TRUE, keys |-> {"name", "version"}, name |-> PathStr(dir),
   version |-> <<"0", ".", "1">>, description |-> <<>>]

\* a Chart.yaml that yaml.safe_load rejects
BadYaml ==
  [loads |-> FALSE, keys |-> {}, name |-> <<>>, version |-> <<>>, description |-> <<>>]

NoLines == [p \in {} |-> <<>>]

\* a file system: every chart directory of chart_dirs holds a Chart.yaml,
\* those of bad an unloadable one
MkFs(dirs, chart_dirs, bad, files, lines) ==
  LET all_files == files \cup {d \o <<CHART_YAML>> : d \in chart_dirs}
  IN [dirs |-> dirs \cup chart_dirs,
      files |-> all_files,
      yaml |-> [p \in {d \o <<CHART_YAML>> : d \in chart_dirs} |->
                  IF Parent(p) \in bad THEN BadYaml ELSE ChartYaml(Parent(p))],
      lines |-> lines]

EmptyFs == MkFs({}, {}, {}, {}, NoLines)

\* an Armada chart document; `dependencies` absent when supplied is FALSE
Doc(source_dir, supplied, dependencies) ==
  [metadata |-> [name |-> <<"doc", "-">> \o BaseName(source_dir)],
   data |-> [keys |-> {"source_dir"} \cup (IF supplied THEN {"dependencies"} ELSE {}),
             source_dir |-> source_dir,
             dependencies |-> dependencies]]

SeqsUpTo(S, n) == UNION {[1..k -> S] : k \in 0..n}

LeafDocs == {Doc(d, s, <<>>) : d \in {LIB, KV}, s \in BOOLEAN}
DepDocs == LeafDocs \cup {Doc(LIB, TRUE, <<k>>) : k \in {Doc(KV, s, <<>>) : s \in BOOLEAN}}
BuildDocs ==
  {Doc(APP, FALSE, <<>>)} \cup {Doc(APP, TRUE, deps) : deps \in SeqsUpTo(DepDocs, MaxDeps)}

\* app/, lib/ and kv/ with what their charts/ directories hold
BuildFs(has_charts, entries, nested, lib_charts, kv_yaml) ==
  LET charts == APP \o <<CHARTS>>
      subcharts == {charts \o <<n>> : n \in entries \cap {WEB, API, TMP}}
      web_charts == charts \o <<WEB, CHARTS>>
      lib_dir == LIB \o <<CHARTS>>
  IN MkFs((IF has_charts THEN {charts} ELSE {})
            \cup (IF nested THEN {web_charts} ELSE {})
            \cup (IF lib_charts THEN {lib_dir} ELSE {})
            \cup (IF kv_yaml = "missing" THEN {KV} ELSE {}),
          {APP, LIB} \cup subcharts
            \cup (IF kv_yaml = "missing" THEN {} ELSE {KV})
            \cup (IF nested THEN {web_charts \o <<JOB>>} ELSE {})
            \cup (IF lib_charts THEN {lib_dir \o <<JOB>>} ELSE {}),
          IF kv_yaml = "bad" THEN {KV} ELSE {},
          IF TGZ \in entries THEN {charts \o <<TGZ>>} ELSE {},
          NoLines)

BuildFileSystems ==
  {BuildFs(FALSE, {}, FALSE, l, k) : l \in BOOLEAN, k \in {"ok", "bad", "missing"}}
    \cup UNION {{BuildFs(TRUE, e, n, l, k) :
                    n \in {FALSE, (WEB \in e)}, l \in BOOLEAN,
                    k \in {"ok", "bad", "missing"}} :
                 e \in SUBSET {WEB, API, TMP, TGZ}}

\* the lines a .helmignore can hold, as readlines gives them
IgnoreLines ==
  { <<"web", "\n">>, <<"*", ".", "bak", "\n">>, <<"dir", "/", "web", "\n">>,
    <<"*", "\n">>, <<"\n">>, <<"*", "web", "*", "\n">>,
    <<" ", "api", " ", "\n">>, <<"web", "*", "\n">> }

\* app/ with a templates/ of the given files; helmignore is <<>> or <<lines>>
TemplateFs(kind, top, sub, helmignore) ==
  LET tdir == APP \o <<TEMPLATES>>
      ignore == APP \o <<HELMIGNORE>>
  IN MkFs((IF kind = "dir" THEN {tdir} ELSE {})
            \cup (IF sub # {} THEN {tdir \o <<DIR>>} ELSE {}),
          {APP},
          {},
          {tdir \o <<n>> : n \in top} \cup {tdir \o <<DIR, n>> : n \in sub}
            \cup (IF kind = "file" THEN {tdir} ELSE {})
            \cup (IF helmignore # <<>> THEN {ignore} ELSE {}),
          [p \in (IF helmignore # <<>> THEN {ignore} ELSE {}) |-> helmignore[1]])

HelmIgnores == {<<>>} \cup {<<lines>> : lines \in SeqsUpTo(IgnoreLines, MaxPatterns)}

TemplateFileSystems ==
  {TemplateFs(t, {}, {}, h) : t \in {"none", "file"}, h \in HelmIgnores}
    \cup {TemplateFs("dir", top, sub, h) :
            top \in SUBSET {WEB, BAK, API}, sub \in SUBSET {WEB, BAK}, h \in HelmIgnores}

README == <<"README">>
TEMPLATES_OLD == <<"templates", "_", "old">>

\* the files a chart directory can hold besides its Chart.yaml, under app/
TreeFiles ==
  { <<README>>, <<VALUES_YAML>>, <<CHARTS, PROV>>, <<CHARTS, WEB, README>>,
    <<CHARTS, WEB, CHARTS, PROV>>, <<TEMPLATES, WEB>>, <<TEMPLATES, CHARTS, PROV>>,
    <<TEMPLATES_OLD, WEB>>, <<DIR, WEB>>, <<DIR, VALUES_TOML>> }

\* the directories above a file
Ancestors(f) == {SubSeq(f, 1, k) : k \in 1..(Len(f) - 1)}

\* app/ holding the given files; charts/web is a chart of its own
TreeFs(held) ==
  MkFs(UNION {Ancestors(APP \o f) : f \in held},
       {APP} \cup (IF \E f \in held : Len(f) > 2 /\ SubSeq(f, 1, 2) = <<CHARTS, WEB>>
                   THEN {APP \o <<CHARTS, WEB>>} ELSE {}),
       {},
       {APP \o f : f \in held},
       NoLines)

TreeFileSystems == {TreeFs(held) : held \in SUBSET TreeFiles}

\* ChartBuilder.from_chart_doc(chart_doc)
FromChartDoc ==
  /\ builder = <<>>
  /\ builder' = <<from_chart_doc(chart_doc)>>
  /\ UNCHANGED <<syncVars, planVars, probeVars, fs, scan_reversed, chart_doc, built, templates>>

\* builder.get_helm_chart()
GetHelmChart ==
  /\ builder # <<>>
  /\ Len(built) < MaxBuilds
  /\ LET call == get_helm_chart(builder[1])
     IN /\ built' = Append(built, call.result)
        /\ builder' = <<call.self>>
  /\ UNCHANGED <<syncVars, planVars, probeVars, fs, scan_reversed, chart_doc, templates>>

\* builder.get_templates()
GetTemplates ==
  /\ builder # <<>>
  /\ templates = <<>>
  /\ templates' = <<get_templates(builder[1])>>
  /\ UNCHANGED <<syncVars, planVars, probeVars, fs, scan_reversed, chart_doc, builder, built>>

\* every file is UTF-8 text
NoIo == [p \in {} |-> "utf8"]

IdleProbe ==
  /\ io = NoIo
  /\ locale = "utf-8"
  /\ chart_files = <<>>
  /\ dumped = <<>>
  /\ arg_filename = <<>>
  /\ ignore_result = <<>>

IdleBuild ==
  /\ fs = EmptyFs
  /\ scan_reversed = FALSE
  /\ chart_doc = Doc(APP, FALSE, <<>>)
  /\ builder = <<>>
  /\ built = <<>>
  /\ templates = <<>>
  /\ IdleProbe

\* Chart.SerializeToString(): the bytes of a chart, which its content fixes
SerializeToString(chart) == <<"serialized", chart>>

\* builder.dump()
Dump ==
  /\ builder # <<>>
  /\ Len(built) < MaxBuilds
  /\ LET call == get_helm_chart(builder[1])
     IN /\ built' = Append(built, call.result)
        /\ builder' = <<call.self>>
        /\ dumped' = Append(dumped,
                            [n |-> Len(built) + 1,
                             result |-> IF call.result.ok
                                        THEN Return(SerializeToString(call.result.value))
                                        ELSE call.result])
  /\ UNCHANGED <<syncVars, planVars, fs, scan_reversed, chart_doc, templates,
                 io, locale, chart_files, arg_filename, ignore_result>>

\* what the source trees can become while a builder is alive: a file is
\* added to the chart or to a dependency, Chart.yaml is broken
Touched ==
  { [fs EXCEPT !.files = @ \cup {APP \o <<README>>}],
    [fs EXCEPT !.files = @ \cup {LIB \o <<README>>}],
    [fs EXCEPT !.yaml[APP \o <<CHART_YAML>>] = BadYaml] }

\* the source trees change under the builder
TouchSource ==
  /\ builder # <<>>
  /\ fs' \in Touched
  /\ fs' # fs
  /\ UNCHANGED <<syncVars, planVars, probeVars, scan_reversed, chart_doc, builder,
                 built, templates>>

CacheDocs ==
  {Doc(APP, FALSE, <<>>), Doc(APP, TRUE, <<Doc(LIB, FALSE, <<>>)>>),
   Doc(APP, TRUE, <<Doc(KV, FALSE, <<>>)>>)}

CacheFileSystems ==
  {BuildFs(FALSE, {}, FALSE, FALSE, "ok"), BuildFs(FALSE, {}, FALSE, FALSE, "bad"),
   BuildFs(TRUE, {WEB}, FALSE, FALSE, "ok")}

\* what the Chart.yaml of a chart directory can be
YamlVariants == {"ok", "bad", "missing", "no_name", "no_version"}

\* the file system f with the Chart.yaml of dir as the variant says
WithYaml(f, dir, variant) ==
  LET path == dir \o <<CHART_YAML>>
  IN IF variant = "bad" THEN [f EXCEPT !.yaml[path] = BadYaml]
     ELSE IF variant = "missing"
     THEN [f EXCEPT !.files = @ \ {path},
                    !.yaml = [q \in (DOMAIN @) \ {path} |-> @[q]]]
     ELSE IF variant = "no_name"
     THEN [f EXCEPT !.yaml[path] = [ChartYaml(dir) EXCEPT !.keys = {"version"}]]
     ELSE IF variant = "no_version"
     THEN [f EXCEPT !.yaml[path] = [ChartYaml(dir) EXCEPT !.keys = {"name"}]]
     ELSE f

ErrorFileSystems ==
  {WithYaml(WithYaml(WithYaml(BuildFs(FALSE, {}, FALSE, FALSE, "ok"), APP, a), LIB, l),
            KV, k) : a \in YamlVariants, l \in YamlVariants, k \in YamlVariants}

ErrorDocs ==
  {Doc(APP, FALSE, <<>>),
   Doc(APP, TRUE, <<Doc(LIB, FALSE, <<>>)>>),
   Doc(APP, TRUE, <<Doc(LIB, TRUE, <<Doc(KV, FALSE, <<>>)>>)>>),
   Doc(APP, TRUE, <<Doc(LIB, FALSE, <<>>), Doc(KV, FALSE, <<>>)>>)}

\* the non-template files whose reading is examined
ReadFiles == {<<README>>, <<DIR, WEB>>, <<CHARTS, PROV>>}

ReadKinds == {"utf8", "latin1", "oserror"}

Locales == {"utf-8", "latin1"}

\* the file names ignore_file is asked about
FileNames ==
  { WEB, BAK, API, <<"dir", "/", "web">>, <<"web", "*">>, <<".", "bak">> }

\* builder.ignore_file(arg_filename)
IgnoreFile ==
  /\ builder # <<>>
  /\ ignore_result = <<>>
  /\ ignore_result' = <<ignore_file(builder[1], arg_filename)>>
  /\ UNCHANGED <<syncVars, planVars, buildVars, io, locale, chart_files, dumped,
                 arg_filename>>

\* builder.get_files()
GetFiles ==
  /\ builder # <<>>
  /\ chart_files = <<>>
  /\ chart_files' = <<get_files(builder[1])>>
  /\ UNCHANGED <<syncVars, planVars, buildVars, io, locale, dumped, arg_filename,
                 ignore_result>>

IdlePlan ==
  /\ arg_chart = ChartDoc(1, {}, NoProtected, NoUpgrade, 0)
  /\ arg_known = <<>>
  /\ planned = <<>>

IdleSync ==
  /\ known_releases = <<>>
  /\ pc = "idle"
  /\ gi = 1
  /\ ci = 1
  /\ plan = <<>>
  /\ calls = <<>>
  /\ failed = {}
  /\ processed = {}
  /\ raised = NoChart
  /\ rerun = FALSE

\* One run of sync against a backend whose calls succeed.
Init ==
  /\ manifest \in Manifests
  /\ backend \in [ReleaseNames -> Statuses]
  /\ IdleSync
  /\ IdlePlan
  /\ IdleBuild

Next == StartSync \/ ProcessChart \/ RaiseProtected \/ FinishSync

Spec == Init /\ [][Next]_vars

\* Runs of sync, one after the other, against a backend whose calls may fail.
InitFaults ==
  /\ manifest \in FaultManifests
  /\ backend = [n \in ReleaseNames |-> ABSENT]
  /\ IdleSync
  /\ IdlePlan
  /\ IdleBuild

NextFaults ==
  StartSync \/ Resync \/ ProcessChart \/ FailChart \/ RaiseProtected \/ FinishSync

SpecFaults == InitFaults /\ [][NextFaults]_vars

\* The calls planned for one chart document, over every document.
InitPlan ==
  /\ manifest = DefaultManifest
  /\ backend = [n \in ReleaseNames |-> ABSENT]
  /\ IdleSync
  /\ arg_chart \in AllChartDocs(1)
  /\ arg_known \in KnownLists(1)
  /\ planned = <<>>
  /\ IdleBuild

PlanStep ==
  /\ planned = <<>>
  /\ planned' = <<PlanChart(arg_chart, Prefix, arg_known)>>
  /\ UNCHANGED <<syncVars, buildVars, probeVars, arg_chart, arg_known>>

NextPlan == PlanStep

SpecPlan == InitPlan /\ [][NextPlan]_vars

\* A chart document is turned into a builder and the builder into a chart.
InitBuild ==
  /\ manifest = DefaultManifest
  /\ backend = [n \in ReleaseNames |-> ABSENT]
  /\ IdleSync
  /\ IdlePlan
  /\ fs \in BuildFileSystems
  /\ scan_reversed \in BOOLEAN
  /\ chart_doc \in BuildDocs
  /\ builder = <<>>
  /\ built = <<>>
  /\ templates = <<>>
  /\ IdleProbe

NextBuild == FromChartDoc \/ GetHelmChart

SpecBuild == InitBuild /\ [][NextBuild]_vars

\* The templates of a chart directory, over templates/ trees and .helmignore
\* files.
InitTemplates ==
  /\ manifest = DefaultManifest
  /\ backend = [n \in ReleaseNames |-> ABSENT]
  /\ IdleSync
  /\ IdlePlan
  /\ fs \in TemplateFileSystems
  /\ scan_reversed \in BOOLEAN
  /\ chart_doc = Doc(APP, FALSE, <<>>)
  /\ builder = <<>>
  /\ built = <<>>
  /\ templates = <<>>
  /\ IdleProbe

NextTemplates == FromChartDoc \/ GetTemplates

SpecTemplates == InitTemplates /\ [][NextTemplates]_vars

\* Calls of get_helm_chart and dump on one builder while its source trees
\* change.
InitCache ==
  /\ manifest = DefaultManifest
  /\ backend = [n \in ReleaseNames |-> ABSENT]
  /\ IdleSync
  /\ IdlePlan
  /\ fs \in CacheFileSystems
  /\ scan_reversed \in BOOLEAN
  /\ chart_doc \in CacheDocs
  /\ builder = <<>>
  /\ built = <<>>
  /\ templates = <<>>
  /\ IdleProbe

NextCache == FromChartDoc \/ GetHelmChart \/ Dump \/ TouchSource

SpecCache == InitCache /\ [][NextCache]_vars

\* Charts built from directories whose Chart.yaml may be missing, broken or
\* incomplete, with dependencies one and two levels down.
InitErrors ==
  /\ manifest = DefaultManifest
  /\ backend = [n \in ReleaseNames |-> ABSENT]
  /\ IdleSync
  /\ IdlePlan
  /\ fs \in ErrorFileSystems
  /\ scan_reversed \in BOOLEAN
  /\ chart_doc \in ErrorDocs
  /\ builder = <<>>
  /\ built = <<>>
  /\ templates = <<>>
  /\ IdleProbe

NextErrors == FromChartDoc \/ GetHelmChart

SpecErrors == InitErrors /\ [][NextErrors]_vars

\* Files that are UTF-8 text, other bytes, or unreadable, read under either
\* locale.
InitReads ==
  /\ manifest = DefaultManifest
  /\ backend = [n \in ReleaseNames |-> ABSENT]
  /\ IdleSync
  /\ IdlePlan
  /\ \E held \in SUBSET ReadFiles :
       /\ fs = TreeFs(held)
       /\ io \in [{APP \o f : f \in held} -> ReadKinds]
  /\ locale \in Locales
  /\ scan_reversed \in BOOLEAN
  /\ chart_doc = Doc(APP, FALSE, <<>>)
  /\ builder = <<>>
  /\ built = <<>>
  /\ templates = <<>>
  /\ chart_files = <<>>
  /\ dumped = <<>>
  /\ arg_filename = <<>>
  /\ ignore_result = <<>>

NextReads == FromChartDoc \/ GetFiles \/ GetHelmChart

SpecReads == InitReads /\ [][NextReads]_vars

\* ignore_file of a builder, over .helmignore files and file names.
InitIgnore ==
  /\ manifest = DefaultManifest
  /\ backend = [n \in ReleaseNames |-> ABSENT]
  /\ IdleSync
  /\ IdlePlan
  /\ fs \in {TemplateFs("none", {}, {}, h) : h \in HelmIgnores}
  /\ scan_reversed = FALSE
  /\ chart_doc = Doc(APP, FALSE, <<>>)
  /\ builder = <<>>
  /\ built = <<>>
  /\ templates = <<>>
  /\ io = NoIo
  /\ locale = "utf-8"
  /\ chart_files = <<>>
  /\ dumped = <<>>
  /\ arg_filename \in FileNames
  /\ ignore_result = <<>>

NextIgnore == FromChartDoc \/ IgnoreFile

SpecIgnore == InitIgnore /\ [][NextIgnore]_vars

\* The non-template files of a chart directory, over source trees.
InitFiles ==
  /\ manifest = DefaultManifest
  /\ backend = [n \in ReleaseNames |-> ABSENT]
  /\ IdleSync
  /\ IdlePlan
  /\ fs \in TreeFileSystems
  /\ scan_reversed \in BOOLEAN
  /\ chart_doc = Doc(APP, FALSE, <<>>)
  /\ builder = <<>>
  /\ built = <<>>
  /\ templates = <<>>
  /\ IdleProbe

NextFiles == FromChartDoc \/ GetFiles

SpecFiles == InitFiles /\ [][NextFiles]_vars

(* ------------------------------------------------- reading the histories *)
PosOf(e) == <<e.g, e.c>>
PlanFor(p) == SelectSeq(plan, LAMBDA e : PosOf(e) = p)
CallsFor(p) == SelectSeq(calls, LAMBDA e : PosOf(e) = p)
OpsOf(entries) == [i \in 1..Len(entries) |-> entries[i].call.op]
NamesOf(entries) == {entries[i].call.name : i \in 1..Len(entries)}

\* sync has dealt with the chart: processed it, or raised on it
Handled(p) == p \in processed \/ raised = p

\* the chart's release in the snapshot taken at the start of the run
SnapshotStatus(p) ==
  IF NameAt(p) \in KnownNames(known_releases)
  THEN TargetRelease(known_releases, NameAt(p)).status
  ELSE ABSENT

HasProtected(p) == "protected" \in ChartAt(p).keys
ContinueProcessing(p) ==
  /\ "continue_processing" \in ChartAt(p).protected.keys
  /\ ChartAt(p).protected.continue_processing

\* nothing was emitted or called for the chart p or a chart declared after it
NothingFrom(p) ==
  /\ \A i \in 1..Len(plan) : Before(PosOf(plan[i]), p)
  /\ \A i \in 1..Len(calls) : Before(PosOf(calls[i]), p)

(* C1 (as stated): a chart that sync reaches with its release FAILED and   *)
(* a `protected` block present whose continue_processing is false or       *)
(* absent makes sync raise ProtectedReleaseException, and nothing is       *)
(* emitted for it or for any later chart.                                  *)
C1_AsStated ==
  \A p \in ChartPositions :
    (/\ Handled(p)
     /\ SnapshotStatus(p) = STATUS_FAILED
     /\ HasProtected(p)
     /\ ~ContinueProcessing(p))
      => (pc = "aborted" /\ raised = p /\ NothingFrom(p))

(* C1 (amended): the same for a `protected` block that is present and not  *)
(* empty: sync raises ProtectedReleaseException on that chart, the run is  *)
(* aborted, and no install, upgrade or uninstall is emitted for that chart *)
(* or any later chart of any group.                                        *)
C1_ProtectedHalt ==
  \A p \in ChartPositions :
    (/\ Handled(p)
     /\ SnapshotStatus(p) = STATUS_FAILED
     /\ HasProtected(p)
     /\ Truthy(ChartAt(p).protected)
     /\ ~ContinueProcessing(p))
      => (pc = "aborted" /\ raised = p /\ NothingFrom(p))

\* The run was aborted on the second chart of a first group, after a call
\* for the first chart, with a later group still to come.
C1_Witness ==
  /\ pc = "aborted"
  /\ raised = <<1, 2>>
  /\ NumGroups = 2
  /\ SnapshotStatus(<<1, 2>>) = STATUS_FAILED
  /\ ChartAt(<<1, 2>>).protected.keys = {"continue_processing"}
  /\ ~ChartAt(<<1, 2>>).protected.continue_processing
  /\ Len(calls) = 1
  /\ SnapshotStatus(<<2, 1>>) = ABSENT

(* C2: a processed chart whose release is FAILED and whose `protected`     *)
(* block is absent or empty gets exactly one Uninstall of the qualified    *)
(* release name and then exactly one Install of it, and no Upgrade.        *)
C2_PurgeThenInstall ==
  \A p \in processed :
    (SnapshotStatus(p) = STATUS_FAILED
       /\ (~HasProtected(p) \/ ChartAt(p).protected.keys = {}))
      => /\ OpsOf(PlanFor(p)) = <<"uninstall", "install">>
         /\ OpsOf(CallsFor(p)) = <<"uninstall", "install">>
         /\ NamesOf(PlanFor(p)) = {<<manifest.release_prefix, "-", ChartAt(p).release>>}
         /\ NamesOf(CallsFor(p)) = {<<manifest.release_prefix, "-", ChartAt(p).release>>}

\* A chart with an empty `protected` block and one with none were both purged
\* and installed.
C2_Witness ==
  /\ pc = "done"
  /\ \E p, q \in processed :
       /\ SnapshotStatus(p) = STATUS_FAILED /\ ~HasProtected(p)
       /\ SnapshotStatus(q) = STATUS_FAILED /\ HasProtected(q)
       /\ ChartAt(q).protected.keys = {}
       /\ Len(CallsFor(p)) = 2 /\ Len(CallsFor(q)) = 2

\* the chart declared right after p in p's group, if any
HasSuccessor(p) == p[2] < Len(Groups[p[1]].chart_group)
Successor(p) == <<p[1], p[2] + 1>>

(* C3: a chart whose release is FAILED and whose `protected` block has     *)
(* continue_processing = true gets no install, upgrade or uninstall, does  *)
(* not abort the run, and sync goes on with the next chart of the group,   *)
(* which gets the calls its own release asks for.                          *)
C3_ProtectedContinue ==
  \A p \in ChartPositions :
    (/\ Handled(p)
     /\ SnapshotStatus(p) = STATUS_FAILED
     /\ HasProtected(p)
     /\ ContinueProcessing(p))
      => /\ p \in processed
         /\ raised # p
         /\ PlanFor(p) = <<>>
         /\ \A i \in 1..Len(calls) : calls[i].call.name # NameAt(p)
         /\ HasSuccessor(p) =>
              \/ pc = "running" /\ <<gi, ci>> = Successor(p)
              \/ /\ Handled(Successor(p))
                 /\ SnapshotStatus(Successor(p)) = ABSENT
                      => OpsOf(CallsFor(Successor(p))) = <<"install">>
                 /\ SnapshotStatus(Successor(p)) = STATUS_DEPLOYED
                      => OpsOf(CallsFor(Successor(p))) = <<"upgrade">>

\* The first chart of a sequenced group was skipped and the next one installed.
C3_Witness ==
  /\ pc = "done"
  /\ Groups[1].sequenced
  /\ SnapshotStatus(<<1, 1>>) = STATUS_FAILED
  /\ HasProtected(<<1, 1>>)
  /\ ContinueProcessing(<<1, 1>>)
  /\ HasSuccessor(<<1, 1>>)
  /\ OpsOf(CallsFor(<<1, 2>>)) = <<"install">>

ArgName == release_prefixer(Prefix, arg_chart.release)

UpgradeOption(chart, k) ==
  /\ "upgrade" \in chart.keys
  /\ "options" \in chart.upgrade.keys
  /\ k \in chart.upgrade.options.keys
  /\ chart.upgrade.options[k]

(* C5 (as stated): for a chart whose release is DEPLOYED exactly one       *)
(* Upgrade is emitted and nothing else, with pre_actions = {} and          *)
(* post_actions = {}, disableHooks = upgrade.no_hooks,                     *)
(* force = upgrade.options.force and                                       *)
(* recreatePods = upgrade.options.recreate_pods, each false when absent.   *)
C5_AsStated ==
  (/\ planned # <<>>
   /\ ArgName \in KnownNames(arg_known)
   /\ TargetRelease(arg_known, ArgName).status = STATUS_DEPLOYED)
    => /\ ~planned[1].raise
       /\ Len(planned[1].actions) = 1
       /\ LET a == planned[1].actions[1]
          IN /\ a.op = "upgrade"
             /\ a.pre_actions = {}
             /\ a.post_actions = {}
             /\ a.disable_hooks = (/\ "upgrade" \in arg_chart.keys
                                   /\ "no_hooks" \in arg_chart.upgrade.keys
                                   /\ arg_chart.upgrade.no_hooks)
             /\ a.force = UpgradeOption(arg_chart, "force")
             /\ a.recreate_pods = UpgradeOption(arg_chart, "recreate_pods")

CallSummary == [i \in 1..Len(calls) |-> <<calls[i].call.op, calls[i].call.name>>]

(* C6: the backend calls of a run follow the manifest's declaration order: *)
(* they are the emitted actions in the order of emission, no call for a    *)
(* chart comes after a call for a chart declared later, and one            *)
(* non-sequenced group of chart_1 absent, chart_2 deployed and chart_3     *)
(* failed and unprotected yields exactly Install(chart_1),                 *)
(* Upgrade(chart_2), Uninstall(chart_3), Install(chart_3) in that order.   *)
C6_DeclarationOrder ==
  /\ Len(calls) = Len(plan)
  /\ \A i \in 1..Len(calls) :
       calls[i].ok /\ calls[i].call = plan[i].call /\ PosOf(calls[i]) = PosOf(plan[i])
  /\ \A i, j \in 1..Len(calls) : i < j => ~Before(PosOf(calls[j]), PosOf(calls[i]))
  /\ (/\ pc = "done"
      /\ NumCharts = 3
      /\ NumGroups = 1
      /\ ~Groups[1].sequenced
      /\ SnapshotStatus(<<1, 1>>) = ABSENT
      /\ SnapshotStatus(<<1, 2>>) = STATUS_DEPLOYED
      /\ SnapshotStatus(<<1, 3>>) = STATUS_FAILED
      /\ ~Truthy(DGet(ChartAt(<<1, 3>>), "protected", EmptyDict)))
       => CallSummary = << <<"install", NameAt(<<1, 1>>)>>,
                           <<"upgrade", NameAt(<<1, 2>>)>>,
                           <<"uninstall", NameAt(<<1, 3>>)>>,
                           <<"install", NameAt(<<1, 3>>)>> >>

\* The run of the three-chart scenario is done, with its four calls.
C6_Witness ==
  /\ pc = "done"
  /\ NumGroups = 1
  /\ ~Groups[1].sequenced
  /\ SnapshotStatus(<<1, 1>>) = ABSENT
  /\ SnapshotStatus(<<1, 2>>) = STATUS_DEPLOYED
  /\ SnapshotStatus(<<1, 3>>) = STATUS_FAILED
  /\ Len(calls) = 4

SameGroupLater(p, q) == p[1] = q[1] /\ p[2] < q[2]

(* C7: a failed backend call is recorded; in a sequenced group nothing is  *)
(* done for the later charts of that group while the other groups are      *)
(* still processed; in a non-sequenced group the remaining charts are      *)
(* still processed; a failed call never aborts the run.                    *)
C7_FailureScope ==
  /\ \A i \in 1..Len(calls) : ~calls[i].ok => PosOf(calls[i]) \in failed
  /\ \A p \in failed :
       Groups[p[1]].sequenced =>
         \A q \in ChartPositions :
           SameGroupLater(p, q) => (~Handled(q) /\ PlanFor(q) = <<>> /\ CallsFor(q) = <<>>)
  /\ pc = "aborted" => (raised \in ChartPositions /\ raised \notin failed)
  /\ raised = NoChart => pc # "aborted"
  /\ pc = "done" =>
       \A q \in ChartPositions :
         \/ q \in processed
         \/ \E p \in failed : Groups[p[1]].sequenced /\ SameGroupLater(p, q)

\* A call failed for the first chart of a sequenced first group: its second
\* chart was left alone, the chart of the second group was processed, and
\* the run ended.
C7_Witness ==
  /\ pc = "done"
  /\ NumGroups = 2
  /\ Groups[1].sequenced
  /\ <<1, 1>> \in failed
  /\ <<1, 2>> \in ChartPositions
  /\ <<1, 2>> \notin processed
  /\ <<2, 1>> \in processed
  /\ CallsFor(<<2, 1>>) # <<>>

\* the actions emitted by a step that processes the chart under the cursor
Emitted == SubSeq(plan', Len(plan) + 1, Len(plan'))
ChartStep == pc = "running" /\ pc' = "running" /\ processed' # processed

(* C8 (as stated): in a run after an earlier one, each chart is classified *)
(* against the backend's current releases: a chart whose release is        *)
(* DEPLOYED gets an Upgrade and no Install or Uninstall, and only a chart  *)
(* whose release is absent gets an Install.                                *)
C8_AsStated ==
  [][(rerun /\ ChartStep) =>
       LET st == backend[NameAt(<<gi, ci>>)]
           ops == OpsOf(Emitted)
       IN /\ st = STATUS_DEPLOYED => ops = <<"upgrade">>
          /\ (\E i \in 1..Len(ops) : ops[i] = "install") => st = ABSENT]_vars

(* C8 (amended): in a run after an earlier one, each chart is classified   *)
(* against the backend's current releases: a chart whose release is        *)
(* DEPLOYED gets an Upgrade and no Install or Uninstall, and an Install    *)
(* goes only to a chart whose release is absent, or FAILED and             *)
(* unprotected, in which case an Uninstall of it comes first.              *)
C8_Reclassified ==
  [][(rerun /\ ChartStep) =>
       LET st == backend[NameAt(<<gi, ci>>)]
           ops == OpsOf(Emitted)
       IN /\ st = STATUS_DEPLOYED => ops = <<"upgrade">>
          /\ (\E i \in 1..Len(ops) : ops[i] = "install") =>
               \/ st = ABSENT /\ ops = <<"install">>
               \/ /\ st = STATUS_FAILED
                  /\ ~Truthy(DGet(ChartAt(<<gi, ci>>), "protected", EmptyDict))
                  /\ ops = <<"uninstall", "install">>]_vars

\* A later run upgraded a release an earlier run had deployed and installed
\* one that was still absent.
C8_Witness ==
  /\ rerun
  /\ pc = "done"
  /\ \E p, q \in processed :
       /\ SnapshotStatus(p) = STATUS_DEPLOYED
       /\ OpsOf(CallsFor(p)) = <<"upgrade">>
       /\ SnapshotStatus(q) = ABSENT
       /\ OpsOf(CallsFor(q)) = <<"install">>

(* ------------------------------------------------ supplied dependencies *)
Supplied(doc) == "dependencies" \in doc.data.keys

\* the builders follow the document: where it supplies dependencies, the
\* dependency builders are those of the supplied documents, in their order
RECURSIVE BuilderFollows(_, _)
BuilderFollows(b, doc) ==
  Supplied(doc) =>
    /\ Len(b.dependency_builders) = Len(doc.data.dependencies)
    /\ \A i \in 1..Len(doc.data.dependencies) :
         /\ b.dependency_builders[i].source_directory
              = doc.data.dependencies[i].data.source_dir
         /\ BuilderFollows(b.dependency_builders[i], doc.data.dependencies[i])

\* the chart follows the document: where it supplies dependencies, the
\* dependency charts are those of the supplied documents' directories, in
\* their order
RECURSIVE ChartFollows(_, _)
ChartFollows(chart, doc) ==
  Supplied(doc) =>
    /\ Len(chart.dependencies) = Len(doc.data.dependencies)
    /\ \A i \in 1..Len(doc.data.dependencies) :
         /\ chart.dependencies[i].metadata.name
              = PathStr(doc.data.dependencies[i].data.source_dir)
         /\ ChartFollows(chart.dependencies[i], doc.data.dependencies[i])

\* C9: when a chart document supplies `dependencies` (the empty list too),
\* the builder's dependencies and the built chart's dependencies are those of
\* the supplied documents in the supplied order, at every level, whatever
\* the charts/ directories hold and in whatever order they are scanned.
C9_SuppliedDependencies ==
  /\ builder # <<>> => BuilderFollows(builder[1], chart_doc)
  /\ \A i \in 1..Len(built) :
       built[i].ok => ChartFollows(built[i].value, chart_doc)

\* kv before lib is supplied, lib with kv as its own dependency, while
\* app/charts holds web and api and lib/charts holds job; the chart is built.
C9_Witness ==
  /\ chart_doc.data.dependencies
       = <<Doc(KV, FALSE, <<>>), Doc(LIB, TRUE, <<Doc(KV, FALSE, <<>>)>>)>>
  /\ Supplied(chart_doc)
  /\ {APP \o <<CHARTS, WEB>>, APP \o <<CHARTS, API>>, LIB \o <<CHARTS, JOB>>}
       \subseteq fs.dirs
  /\ scan_reversed
  /\ built # <<>>
  /\ built[1].ok
  /\ Len(built[1].value.dependencies) = 2
  /\ built[1].value.dependencies[1].metadata.name = PathStr(KV)
  /\ built[1].value.dependencies[2].metadata.name = PathStr(LIB)
  /\ Len(built[1].value.dependencies[2].dependencies) = 1

(* -------------------------------------------------------------- templates *)
TemplatesDir == APP \o <<TEMPLATES>>

\* the files under templates/, at any depth
TemplateFiles ==
  {f \in fs.files : Len(f) > Len(TemplatesDir)
                    /\ SubSeq(f, 1, Len(TemplatesDir)) = TemplatesDir}

RelName(f) == PathStr(SubSeq(f, Len(TemplatesDir) + 1, Len(f)))

Occurrences(out, name) == Cardinality({i \in 1..Len(out) : out[i].name = name})

HelmIgnoreLines ==
  IF APP \o <<HELMIGNORE>> \in fs.files THEN fs.lines[APP \o <<HELMIGNORE>>] ELSE <<>>

\* the name matches a pattern of .helmignore: a pattern is a non-empty
\* trimmed line; `*suffix` matches a name that ends with suffix, any other
\* pattern the name equal to it
MatchesPattern(name) ==
  \E i \in 1..Len(HelmIgnoreLines) :
    LET pattern == Strip(HelmIgnoreLines[i], Whitespace)
    IN /\ pattern # <<>>
       /\ IF Head(pattern) = "*" THEN EndsWith(name, Tail(pattern))
          ELSE pattern = name

\* the templates returned are the files under templates/ that `ignored`
\* leaves out, each once and under its relative name
TemplatesAre(out, ignored(_)) ==
  /\ \A f \in TemplateFiles :
       IF ignored(RelName(f)) THEN Occurrences(out, RelName(f)) = 0
       ELSE /\ Occurrences(out, RelName(f)) = 1
            /\ \E i \in 1..Len(out) : out[i] = [name |-> RelName(f), data |-> FileData(f)]
  /\ \A i \in 1..Len(out) : \E f \in TemplateFiles : out[i].name = RelName(f)
  /\ TemplatesDir \notin fs.dirs => out = <<>>

\* C10, as stated: a file under templates/ whose relative name matches a
\* .helmignore pattern is never returned; one that matches none is returned
\* exactly once, under its relative name; without templates/ nothing is
\* returned.
C10_AsStated ==
  templates # <<>> => TemplatesAre(templates[1], MatchesPattern)

\* C10, with ignore_file deciding what matches: a file under templates/ for
\* whose relative name ignore_file is true is never returned; any other is
\* returned exactly once, under its relative name; without templates/
\* nothing is returned.
C10_IgnoreFileDecides ==
  templates # <<>> =>
    TemplatesAre(templates[1], LAMBDA name : ignore_file(builder[1], name))

\* templates/ holds web, web.bak and dir/web, .helmignore the lines `*.bak`
\* and `dir/web`: web alone is returned.
C10_Witness ==
  /\ templates # <<>>
  /\ HelmIgnoreLines = << <<"*", ".", "bak", "\n">>, <<"dir", "/", "web", "\n">> >>
  /\ TemplateFiles = {TemplatesDir \o <<WEB>>, TemplatesDir \o <<BAK>>,
                      TemplatesDir \o <<DIR, WEB>>}
  /\ templates[1] = <<[name |-> WEB, data |-> FileData(TemplatesDir \o <<WEB>>)]>>

(* ------------------------------------------------------------------ files *)
\* f lies in the subtree of the directory dir
Under(f, dir) == Len(f) > Len(dir) /\ SubSeq(f, 1, Len(dir)) = dir

\* the path of f relative to the chart root app/
RootRelative(f) == PathStr(SubSeq(f, Len(APP) + 1, Len(f)))

\* the entries of the file list that carry the content of f
EntriesOf(out, f) == {i \in 1..Len(out) : out[i].value = FileData(f)}

InSubtrees(f) == Under(f, APP \o <<CHARTS>>) \/ Under(f, APP \o <<TEMPLATES>>)

\* C11, as stated: if charts/.prov exists, the files include it, keyed
\* charts/.prov, and no other file under charts/ or templates/ (at any
\* depth) is among the files.
C11_AsStated ==
  (chart_files # <<>> /\ chart_files[1].ok) =>
    LET out == chart_files[1].value
        prov == APP \o <<CHARTS, PROV>>
    IN /\ prov \in fs.files =>
            \E i \in EntriesOf(out, prov) : out[i].type_url = RootRelative(prov)
       /\ \A f \in fs.files :
            (InSubtrees(f) /\ f # prov) => EntriesOf(out, f) = {}

\* C12, as stated: every file that is not under templates/ or charts/ and
\* is not named Chart.yaml, values.yaml or values.toml is among the files
\* exactly once, keyed by its path relative to the chart root (README or
\* ./README for a file of the root itself); so is templates_old/web.
C12_AsStated ==
  (chart_files # <<>> /\ chart_files[1].ok) =>
    LET out == chart_files[1].value
    IN \A f \in fs.files :
         (~InSubtrees(f) /\ BaseName(f) \notin files_to_ignore) =>
           /\ Cardinality(EntriesOf(out, f)) = 1
           /\ \A i \in EntriesOf(out, f) :
                out[i].type_url \in {RootRelative(f), <<".", "/">> \o RootRelative(f)}

(* ------------------------------------------------------------ memoization *)
\* C13: once a call of get_helm_chart (also one made by dump) has
\* returned a chart, every later call on the same builder returns that same
\* chart, whatever has become of the source trees, the builder holds it as
\* its cached chart, and every dump is the serialization of it.
C13_BuiltOnce ==
  /\ \A i, j \in 1..Len(built) :
       (i < j /\ built[i].ok) =>
         /\ built[j] = built[i]
         /\ builder[1].helm_chart = <<built[i].value>>
  /\ \A k \in 1..Len(dumped) :
       \A i \in 1..dumped[k].n :
         built[i].ok => dumped[k].result = Return(SerializeToString(built[i].value))

\* A chart was built, its source changed so that building anew would give
\* something else, and a dump after that gave the chart built first.
C13_Witness ==
  /\ Len(built) = 2
  /\ built[1].ok
  /\ built[2] = built[1]
  /\ get_helm_chart(from_chart_doc(chart_doc)).result # built[1]
  /\ Len(dumped) = 1
  /\ dumped[1].n = 2
  /\ dumped[1].result = Return(SerializeToString(built[1].value))

(* ----------------------------------------------------------------- errors *)
\* Chart.yaml of the directory exists, loads and gives name and version
YamlComplete(dir) ==
  LET path == dir \o <<CHART_YAML>>
  IN /\ path \in fs.files
     /\ fs.yaml[path].loads
     /\ {"name", "version"} \subseteq fs.yaml[path].keys

\* the directory and every directory its document makes it depend on have a
\* Chart.yaml that loads
RECURSIVE Loads(_)
Loads(doc) ==
  LET path == doc.data.source_dir \o <<CHART_YAML>>
  IN /\ path \in fs.files
     /\ fs.yaml[path].loads
     /\ \A i \in 1..Len(doc.data.dependencies) : Loads(doc.data.dependencies[i])

DependenciesLoad(doc) ==
  \A i \in 1..Len(doc.data.dependencies) : Loads(doc.data.dependencies[i])

\* the exception is the metadata error, or carries it as its details
IsMetadataError(exc) ==
  \/ exc.class = "MetadataLoadException"
  \/ \E i \in 1..Len(exc.details) : exc.details[i].class = "MetadataLoadException"

\* C14, as stated: a chart whose Chart.yaml is missing, does not parse, or
\* lacks name or version fails with the metadata error and gives no chart;
\* a chart is returned only when Chart.yaml exists and gives both keys.
\* (Stated for a chart whose dependencies build.)
C14_AsStated ==
  \A i \in 1..Len(built) :
    DependenciesLoad(chart_doc) =>
      /\ built[i].ok => YamlComplete(chart_doc.data.source_dir)
      /\ ~YamlComplete(chart_doc.data.source_dir) =>
           (~built[i].ok /\ IsMetadataError(built[i].exc))

\* the dependency builders of b that fail to build
FailingDependencies(b) ==
  {i \in 1..Len(b.dependency_builders) :
     ~get_helm_chart_NoCache(b.dependency_builders[i]).result.ok}

\* C15, as stated: when a dependency fails to build, at any depth, the
\* chart fails with DependencyException, which wraps the cause (as details
\* or as the exception it was raised from) and names the parent chart and
\* the dependency that failed; no chart is returned.
C15_AsStated ==
  \A k \in 1..Len(built) :
    LET b == from_chart_doc(chart_doc)
    IN FailingDependencies(b) # {} =>
         /\ ~built[k].ok
         /\ built[k].exc.class = "DependencyException"
         /\ \E i \in FailingDependencies(b) :
              LET cause == get_helm_chart_NoCache(b.dependency_builders[i]).result.exc
              IN /\ (built[k].exc.context = <<cause>> \/ built[k].exc.details = <<cause>>)
                 /\ {b.name, b.dependency_builders[i].name}
                      \subseteq {built[k].exc.names[j] : j \in 1..Len(built[k].exc.names)}

\* C15, the part the code keeps: when a dependency fails to build, at any
\* depth, the chart fails with DependencyException naming the parent chart,
\* raised while the dependency's exception was handled; no chart is
\* returned.
C15_NeverSwallowed ==
  \A k \in 1..Len(built) :
    LET b == from_chart_doc(chart_doc)
    IN FailingDependencies(b) # {} =>
         /\ ~built[k].ok
         /\ built[k].exc.class = "DependencyException"
         /\ built[k].exc.names = <<b.name>>
         /\ \E i \in FailingDependencies(b) :
              built[k].exc.context
                = <<get_helm_chart_NoCache(b.dependency_builders[i]).result.exc>>

\* kv, the dependency of the dependency lib, has no Chart.yaml: the chart
\* failed with DependencyException, raised while that of lib was handled.
C15_Witness ==
  /\ chart_doc = Doc(APP, TRUE, <<Doc(LIB, TRUE, <<Doc(KV, FALSE, <<>>)>>)>>)
  /\ KV \o <<CHART_YAML>> \notin fs.files
  /\ YamlComplete(APP) /\ YamlComplete(LIB)
  /\ built # <<>>
  /\ ~built[1].ok
  /\ built[1].exc.class = "DependencyException"
  /\ built[1].exc.context[1].class = "DependencyException"
  /\ built[1].exc.context[1].context[1].class = "HelmChartBuildException"

(* ------------------------------------------------------------------ reads *)
\* the files of the tree that cannot be opened or read
Unreadable == {f \in DOMAIN io : io[f] = "oserror"}

\* decoding the bytes of a file as utf-8, as latin1: utf-8 decodes UTF-8
\* text, latin1 any bytes
Decodable(f, encoding) == encoding = "latin1" \/ ReadKind(f) = "utf8"

IsReadError(exc) == exc.class = "FilesLoadException"

\* the error carries an I/O cause; it carries decode failure messages
HasIoCause(exc) ==
  \E i \in 1..Len(exc.details) : exc.details[i] \in {Exc("OSError", exc.names, <<>>, <<>>)}
HasDecodeFailures(exc) == exc.context = <<>> /\ Len(exc.details) = Len(encodings)

\* C16, as stated: a file is read as utf-8 and then as latin1 and is among
\* the files if either decodes it; FilesLoadException naming the file, with
\* both decode failures, is raised only for a file neither decodes; a file
\* that cannot be read raises FilesLoadException with the I/O cause; after
\* an error no chart is built.
C16_AsStated ==
  /\ chart_files # <<>> =>
       LET res == chart_files[1]
       IN /\ Unreadable = {} =>
               /\ res.ok
               /\ \A f \in DOMAIN io :
                    (\E e \in {"utf-8", "latin1"} : Decodable(f, e)) =>
                      EntriesOf(res.value, f) # {}
          /\ ~res.ok =>
               /\ IsReadError(res.exc)
               /\ \E f \in DOMAIN io :
                    /\ res.exc.names = <<PathStr(f)>>
                    /\ \/ f \in Unreadable /\ HasIoCause(res.exc)
                       \/ /\ HasDecodeFailures(res.exc)
                          /\ \A e \in {"utf-8", "latin1"} : ~Decodable(f, e)
  /\ \A i \in 1..Len(built) :
       (Unreadable # {} \/ \E f \in DOMAIN io : \A e \in {"utf-8", "latin1"} : ~Decodable(f, e))
         => ~built[i].ok

(* ------------------------------------------------------------ ignore_file *)
\* C17, as stated: ignore_file(filename) is true exactly when some
\* non-empty trimmed line of .helmignore is `*suffix` and filename ends
\* with suffix, everything after the leading `*`, or is another pattern and
\* equals filename; without a .helmignore it is false.
C17_AsStated ==
  ignore_result # <<>> => (ignore_result[1] <=> MatchesPattern(arg_filename))

====
